---- MODULE Spec2Model ----
(***************************************************************************)
(* Model of ml-ising2d: the Ising2D lattice class (lattice.py) and the     *)
(* configuration writer (ising_tools.py).                                  *)
(*                                                                         *)
(* Two objects, "A" and "B", live in one Python process and therefore      *)
(* share the module-level generator of `random`.  Arrays are functions on  *)
(* 0..n-1 as in the source.  An attribute that has not been assigned yet   *)
(* is absent from the object's `attrs`; reading it raises AttributeError.  *)
(*                                                                         *)
(* Temperatures are integers in units of 4/ln 2, so that                   *)
(* exp(-deltaE/temperature) = 2^(-deltaE/(4*temperature)) is compared      *)
(* exactly (deltaE is always a multiple of 4*coupling).                    *)
(***************************************************************************)
EXTENDS Integers, Sequences, FiniteSets, TLC

\* ---------------------------------------------------------------- bounds
MaxL == 3          \* lattice sizes 0..MaxL are passed to the constructor
MaxLat == 3        \* lattice sizes 1..MaxLat in the configuration specification
MaxDown == 1       \* at most MaxDown spins are -1 in an enumerated configuration
MaxOps == 3        \* method calls after construction
RngMod == 8        \* number of states of the stand-in generator

Inst == {"A", "B"}
Models == {"ising", "gauge", "potts"}
Sizes == 0 .. MaxL
Couplings == {1, 2}
Seeds == {0, 1}
Temperatures == {-1, 0, 1}
\* the arguments of write_configs: <<bins, n_bins>>, train_frac as
\* <<numerator, denominator>>, and the temperature
BinArgs == {<<0, 2>>, <<1, 2>>}
TrainFrac == <<1, 2>>
WriterTemperatures == {0, 1}

VARIABLES obj, live, rng_state, files, last, shadow, nops

vars == <<obj, live, rng_state, files, last, shadow, nops>>

\* ------------------------------------------------- the `random` module
\* The process-wide generator is a deterministic function of its state.
\* A small full-period congruential generator stands in for MT19937.
RngNext(x) == (5 * x + 3) % RngMod

\* random.seed(a)
RngSeed(a) == (7 * a + 1) % RngMod

RECURSIVE RngSkip(_, _)
RngSkip(x, k) == IF k = 0 THEN x ELSE RngSkip(RngNext(x), k - 1)

\* random.randint(a, b): the value returned from state x (the state
\* becomes RngNext(x))
Randint(x, a, b) == a + ((RngNext(x) * (b - a + 1)) \div RngMod)

\* random.random(): the numerator of the value in [0,1), over RngMod
RandomNum(x) == RngNext(x)

RECURSIVE Pow(_, _)
Pow(b, e) == IF e = 0 THEN 1 ELSE b * Pow(b, e - 1)

\* random.random() < np.exp(-deltaE / temperature), for deltaE > 0 a
\* multiple of 4.  temperature = 0: numpy yields -inf and exp gives 0;
\* temperature < 0: the exponential exceeds 1.
Metropolis(num, deltaE, temperature) ==
    IF temperature > 0
    THEN Pow(num, temperature) * Pow(2, deltaE \div 4) < Pow(RngMod, temperature)
    ELSE temperature < 0

\* ------------------------------------------------------- Ising2D.__init__
NSpinsOf(lattice_size, model) ==
    IF model = "ising" THEN lattice_size * lattice_size
    ELSE IF model = "gauge" THEN 2 * (lattice_size * lattice_size)
    ELSE 0

\* neighbours with the first row's upward wrap tested by < instead of <=
neighbours_bad(lattice_size, n_sites) ==
    [index \in 0 .. n_sites - 1 |->
        [neigh \in 0 .. 3 |->
            IF neigh = 0 THEN
                IF index % lattice_size = lattice_size - 1
                THEN index + 1 - lattice_size ELSE index + 1
            ELSE IF neigh = 1 THEN
                IF index >= n_sites - lattice_size
                THEN index + lattice_size - n_sites ELSE index + lattice_size
            ELSE IF neigh = 2 THEN
                IF index % lattice_size = 0
                THEN index - 1 + lattice_size ELSE index - 1
            ELSE
                IF index < lattice_size - 1
                THEN index - lattice_size + n_sites ELSE index - lattice_size]]

neighbours(lattice_size, n_sites) ==
    [index \in 0 .. n_sites - 1 |->
        [neigh \in 0 .. 3 |->
            IF neigh = 0 THEN
                IF index % lattice_size = lattice_size - 1
                THEN index + 1 - lattice_size ELSE index + 1
            ELSE IF neigh = 1 THEN
                IF index >= n_sites - lattice_size
                THEN index + lattice_size - n_sites ELSE index + lattice_size
            ELSE IF neigh = 2 THEN
                IF index % lattice_size = 0
                THEN index - 1 + lattice_size ELSE index - 1
            ELSE
                IF index <= lattice_size - 1
                THEN index - lattice_size + n_sites ELSE index - lattice_size]]

\* The object before __init__ has run.
NoObj ==
    [lattice_size |-> 0, n_sites |-> 0, model |-> "", n_spins |-> 0,
     coupling |-> 0, crit_temperature |-> 0, neighbours |-> <<>>,
     spins |-> <<>>, energy |-> 0, magnetization |-> 0, attrs |-> {}]

\* crit_temperature = 2 / (ln(1 + sqrt 2) * coupling) is kept as the
\* coupling it was computed from.
init(lattice_size, coupling, model) ==
    [lattice_size |-> lattice_size,
     n_sites |-> lattice_size * lattice_size,
     model |-> model,
     n_spins |-> NSpinsOf(lattice_size, model),
     coupling |-> coupling,
     crit_temperature |-> coupling,
     neighbours |-> neighbours(lattice_size, lattice_size * lattice_size),
     spins |-> <<>>, energy |-> 0, magnetization |-> 0,
     attrs |-> IF model \in {"ising", "gauge"} THEN {"n_spins"} ELSE {}]

\* -------------------------------------------------- Ising2D.high_T_spins
\* high_T_spins storing the draw itself, 0 or 1, instead of 2*draw - 1
high_T_spins_bad(self, rng, random_state) ==
    IF "n_spins" \notin self.attrs
    THEN [self |-> self, rng |-> RngSeed(random_state), outcome |-> "AttributeError"]
    ELSE [self |-> [self EXCEPT
                      !.spins = [index \in 0 .. self.n_spins - 1 |->
                                   Randint(RngSkip(RngSeed(random_state), index), 0, 1)],
                      !.attrs = @ \cup {"spins"}],
          rng |-> RngSkip(RngSeed(random_state), self.n_spins),
          outcome |-> "ok"]

high_T_spins(self, rng, random_state) ==
    IF "n_spins" \notin self.attrs
    THEN [self |-> self, rng |-> RngSeed(random_state), outcome |-> "AttributeError"]
    ELSE [self |-> [self EXCEPT
                      !.spins = [index \in 0 .. self.n_spins - 1 |->
                                   2 * Randint(RngSkip(RngSeed(random_state), index), 0, 1) - 1],
                      !.attrs = @ \cup {"spins"}],
          rng |-> RngSkip(RngSeed(random_state), self.n_spins),
          outcome |-> "ok"]

\* ---------------------------------------------------- Ising2D.get_energy
RECURSIVE SumTo(_, _)
\* sum of f[0] .. f[n-1]
SumTo(f, n) == IF n = 0 THEN 0 ELSE f[n - 1] + SumTo(f, n - 1)

\* the term one site adds to the Ising energy
IsingTerm(self, spins, index) ==
    -self.coupling * (spins[index] * spins[self.neighbours[index][0]]
                      + spins[index] * spins[self.neighbours[index][1]])

\* the product of the four links of the plaquette anchored at a site
Plaquette(self, spins, index) ==
    spins[2 * index] * spins[2 * index + 1]
    * spins[2 * self.neighbours[index][1]]
    * spins[2 * self.neighbours[index][0] + 1]

\* the energy with all four bonds of every site summed: each bond twice
EnergyOf_bad(self, spins) ==
    IF self.model = "ising"
    THEN SumTo([index \in 0 .. self.n_sites - 1 |->
                  -self.coupling * (spins[index] * spins[self.neighbours[index][0]]
                                    + spins[index] * spins[self.neighbours[index][1]]
                                    + spins[index] * spins[self.neighbours[index][2]]
                                    + spins[index] * spins[self.neighbours[index][3]])],
               self.n_sites)
    ELSE IF self.model = "gauge"
    THEN SumTo([index \in 0 .. self.n_sites - 1 |->
                  -self.coupling * Plaquette(self, spins, index)], self.n_sites)
    ELSE 0

\* the value get_energy leaves in self.energy for a spin array
EnergyOf(self, spins) ==
    IF self.model = "ising"
    THEN SumTo([index \in 0 .. self.n_sites - 1 |-> IsingTerm(self, spins, index)],
               self.n_sites)
    ELSE IF self.model = "gauge"
    THEN SumTo([index \in 0 .. self.n_sites - 1 |->
                  -self.coupling * Plaquette(self, spins, index)], self.n_sites)
    ELSE 0

\* self.energy = 0 is assigned before the first read of self.spins
get_energy(self) ==
    IF self.model \in {"ising", "gauge"} /\ self.n_sites > 0 /\ "spins" \notin self.attrs
    THEN [self |-> [self EXCEPT !.energy = 0, !.attrs = @ \cup {"energy"}],
          outcome |-> "AttributeError"]
    ELSE [self |-> [self EXCEPT !.energy = EnergyOf(self, self.spins),
                                !.attrs = @ \cup {"energy"}],
          outcome |-> "ok"]

\* --------------------------------------------- Ising2D.get_magnetization
get_magnetization(self) ==
    IF "spins" \notin self.attrs
    THEN [self |-> self, outcome |-> "AttributeError"]
    ELSE [self |-> [self EXCEPT !.magnetization = SumTo(self.spins, self.n_spins),
                                !.attrs = @ \cup {"magnetization"}],
          outcome |-> "ok"]

\* ---------------------------------------------------------- Ising2D.sweep
FlipAt(spins, k) == [spins EXCEPT ![k] = -spins[k]]

\* second_plaquette taking the downward neighbour for a link of even index
second_plaquette_bad(self, spin_location) ==
    IF spin_location % 2 = 0
    THEN self.neighbours[spin_location \div 2][1]
    ELSE self.neighbours[spin_location \div 2][2]

second_plaquette(self, spin_location) ==
    IF spin_location % 2 = 0
    THEN self.neighbours[spin_location \div 2][3]
    ELSE self.neighbours[spin_location \div 2][2]

\* deltaE of the gauge branch for the link spin_location
GaugeDeltaE(self, spins, spin_location) ==
    2 * self.coupling
      * (Plaquette(self, spins, spin_location \div 2)
         + Plaquette(self, spins, second_plaquette(self, spin_location)))

\* deltaE of the ising branch, had `site` named the spin it reads
IsingDeltaE(self, spins, site) ==
    SumTo([neigh \in 0 .. 3 |->
             2 * self.coupling * spins[site] * spins[self.neighbours[site][neigh]]], 4)

\* what one pass of the loop body did: the spin drawn, deltaE when it was
\* computed, the number of draws consumed, and the spins before and after
Trial(loc, dE, draws, accepted, raised, before, after) ==
    [spin_location |-> loc, deltaE |-> dE, draws |-> draws,
     accepted |-> accepted, raised |-> raised, before |-> before, after |-> after]

RECURSIVE SweepFrom(_, _, _, _, _)
\* the trials of the loop that are still to run.  In the ising branch the
\* name `site` is bound nowhere: the read of self.spins succeeds or raises
\* AttributeError, and then the read of site raises NameError.
SweepFrom(self, rng, temperature, remaining, trials) ==
    IF remaining = 0
    THEN [self |-> self, rng |-> rng, outcome |-> "ok", trials |-> trials]
    ELSE
      LET spin_location == Randint(rng, 0, self.n_spins - 1)
          rng1 == RngNext(rng)
      IN
      IF "spins" \notin self.attrs
      THEN [self |-> self, rng |-> rng1, outcome |-> "AttributeError",
            trials |-> Append(trials,
                         Trial(spin_location, 0, 1, FALSE, "AttributeError",
                               self.spins, self.spins))]
      ELSE IF self.model = "ising"
      THEN [self |-> self, rng |-> rng1, outcome |-> "NameError",
            trials |-> Append(trials,
                         Trial(spin_location, 0, 1, FALSE, "NameError",
                               self.spins, self.spins))]
      ELSE
        LET deltaE == GaugeDeltaE(self, self.spins, spin_location)
            flipped == [self EXCEPT !.spins = FlipAt(self.spins, spin_location)]
        IN
        IF deltaE <= 0
        THEN SweepFrom(flipped, rng1, temperature, remaining - 1,
                       Append(trials,
                              Trial(spin_location, deltaE, 1, TRUE, "", self.spins,
                                    flipped.spins)))
        ELSE
          LET accept == Metropolis(RandomNum(rng1), deltaE, temperature)
          IN SweepFrom(IF accept THEN flipped ELSE self, RngNext(rng1), temperature,
                       remaining - 1,
                       Append(trials,
                              Trial(spin_location, deltaE, 2, accept, "", self.spins,
                                    IF accept THEN flipped.spins ELSE self.spins)))

sweep(self, rng, temperature) ==
    IF "n_spins" \notin self.attrs
    THEN [self |-> self, rng |-> rng, outcome |-> "AttributeError", trials |-> <<>>]
    ELSE SweepFrom(self, rng, temperature, self.n_spins, <<>>)

\* ------------------------------------- ising_tools.train_test_configs
train_test_configs(bins, n_bins, train_frac) ==
    IF bins * train_frac[2] < train_frac[1] * n_bins
    THEN <<"Xtrain.txt", "ytrain.txt">>
    ELSE <<"Xtest.txt", "ytest.txt">>

FileNames == {"Xtrain.txt", "ytrain.txt", "Xtest.txt", "ytest.txt"}

\* --------------------------------------------- ising_tools.write_configs
\* one spin as it is written: flip * spin, with -1 replaced by 0
Encode(flip, spin) == IF flip * spin = -1 THEN 0 ELSE flip * spin

\* temperature > spin_model.crit_temperature.  With temperature in units
\* of 4/ln 2 and a positive coupling this is
\* 2 * ln(1 + sqrt 2) * temperature * coupling > ln 2, and
\* 2 * ln(1 + sqrt 2) > ln 2 > 0.
AboveCritical(temperature, crit_temperature) ==
    temperature * crit_temperature >= 1

\* write_configs applying the sign flip to spin_model.spins in place
write_configs_bad(bins, n_bins, train_frac, temperature, spin_model, rng, fs) ==
    LET names == train_test_configs(bins, n_bins, train_frac)
        opened == [f \in FileNames |->
                     IF f \in {names[1], names[2]}
                     THEN [fs[f] EXCEPT !.exists = TRUE] ELSE fs[f]]
        flip == 2 * Randint(rng, 0, 1) - 1
    IN
    IF "n_spins" \notin spin_model.attrs
       \/ (spin_model.n_spins > 0 /\ "spins" \notin spin_model.attrs)
    THEN [spin_model |-> spin_model, rng |-> RngNext(rng), files |-> opened,
          outcome |-> "AttributeError"]
    ELSE
      LET line == [index \in 1 .. spin_model.n_spins |->
                     Encode(flip, spin_model.spins[index - 1])]
          phase == IF AboveCritical(temperature, spin_model.crit_temperature)
                   THEN 1 ELSE 0
      IN [spin_model |-> [spin_model EXCEPT
                            !.spins = [index \in 0 .. spin_model.n_spins - 1 |->
                                         flip * spin_model.spins[index]]],
          rng |-> RngNext(rng),
          files |-> [opened EXCEPT ![names[1]].lines = Append(@, line),
                                   ![names[2]].lines = Append(@, <<phase>>)],
          outcome |-> "ok"]

\* An exception inside the with block leaves both files opened (created)
\* and nothing written.
write_configs(bins, n_bins, train_frac, temperature, spin_model, rng, fs) ==
    LET names == train_test_configs(bins, n_bins, train_frac)
        opened == [f \in FileNames |->
                     IF f \in {names[1], names[2]}
                     THEN [fs[f] EXCEPT !.exists = TRUE] ELSE fs[f]]
        flip == 2 * Randint(rng, 0, 1) - 1
    IN
    IF "n_spins" \notin spin_model.attrs
       \/ (spin_model.n_spins > 0 /\ "spins" \notin spin_model.attrs)
    THEN [spin_model |-> spin_model, rng |-> RngNext(rng), files |-> opened,
          outcome |-> "AttributeError"]
    ELSE
      LET line == [index \in 1 .. spin_model.n_spins |->
                     Encode(flip, spin_model.spins[index - 1])]
          phase == IF AboveCritical(temperature, spin_model.crit_temperature)
                   THEN 1 ELSE 0
      IN [spin_model |-> spin_model,
          rng |-> RngNext(rng),
          files |-> [opened EXCEPT ![names[1]].lines = Append(@, line),
                                   ![names[2]].lines = Append(@, <<phase>>)],
          outcome |-> "ok"]

\* ------------------------------------------------------------ the calls
Last(op, i, outcome, size, model, temperature, trials) ==
    [op |-> op, inst |-> i, outcome |-> outcome, size |-> size, model |-> model,
     temperature |-> temperature, trials |-> trials]

\* shadow[i] is what object i would hold if the generator belonged to the
\* object: its spins and its own generator state.
Construct(i, lattice_size, coupling, model) ==
    /\ i \notin live
    /\ live' = live \cup {i}
    /\ obj' = [obj EXCEPT ![i] = init(lattice_size, coupling, model)]
    /\ last' = Last("construct", i, "ok", lattice_size, model, 0, <<>>)
    /\ UNCHANGED <<rng_state, files, shadow, nops>>

HighTSpins(i, random_state) ==
    /\ i \in live
    /\ nops < MaxOps
    /\ LET r == high_T_spins(obj[i], rng_state, random_state)
           g == high_T_spins(obj[i], shadow[i].rng, random_state)
       IN /\ obj' = [obj EXCEPT ![i] = r.self]
          /\ rng_state' = r.rng
          /\ shadow' = [shadow EXCEPT ![i] = [spins |-> g.self.spins, rng |-> g.rng]]
          /\ last' = Last("high_T_spins", i, r.outcome, 0, "", 0, <<>>)
    /\ nops' = nops + 1
    /\ UNCHANGED <<live, files>>

GetEnergy(i) ==
    /\ i \in live
    /\ nops < MaxOps
    /\ LET r == get_energy(obj[i])
       IN /\ obj' = [obj EXCEPT ![i] = r.self]
          /\ last' = Last("get_energy", i, r.outcome, 0, "", 0, <<>>)
    /\ nops' = nops + 1
    /\ UNCHANGED <<live, rng_state, files, shadow>>

GetMagnetization(i) ==
    /\ i \in live
    /\ nops < MaxOps
    /\ LET r == get_magnetization(obj[i])
       IN /\ obj' = [obj EXCEPT ![i] = r.self]
          /\ last' = Last("get_magnetization", i, r.outcome, 0, "", 0, <<>>)
    /\ nops' = nops + 1
    /\ UNCHANGED <<live, rng_state, files, shadow>>

Sweep(i, temperature) ==
    /\ i \in live
    /\ nops < MaxOps
    /\ LET r == sweep(obj[i], rng_state, temperature)
           g == sweep([obj[i] EXCEPT !.spins = shadow[i].spins], shadow[i].rng,
                      temperature)
       IN /\ obj' = [obj EXCEPT ![i] = r.self]
          /\ rng_state' = r.rng
          /\ shadow' = [shadow EXCEPT ![i] = [spins |-> g.self.spins, rng |-> g.rng]]
          /\ last' = Last("sweep", i, r.outcome, 0, "", temperature, r.trials)
    /\ nops' = nops + 1
    /\ UNCHANGED <<live, files>>

WriteConfigs(i, bins, n_bins, temperature) ==
    /\ i \in live
    /\ nops < MaxOps
    /\ LET r == write_configs(bins, n_bins, TrainFrac, temperature, obj[i], rng_state,
                              files)
       IN /\ obj' = [obj EXCEPT ![i] = r.spin_model]
          /\ rng_state' = r.rng
          /\ files' = r.files
          /\ last' = Last("write_configs", i, r.outcome, 0, "", temperature, <<>>)
    /\ nops' = nops + 1
    /\ UNCHANGED <<live, shadow>>

NoFiles == [f \in FileNames |-> [exists |-> FALSE, lines |-> <<>>]]

\* The process starts with no object; importing `random` has seeded the
\* generator with a value taken from the operating system.
Init ==
    /\ obj = [i \in Inst |-> NoObj]
    /\ live = {}
    /\ rng_state \in {RngSeed(a) : a \in Seeds}
    /\ files = NoFiles
    /\ last = Last("", "", "", 0, "", 0, <<>>)
    /\ shadow = [i \in Inst |-> [spins |-> <<>>, rng |-> 0]]
    /\ nops = 0

\* the method calls on one object
Calls(i) ==
    \/ \E random_state \in Seeds : HighTSpins(i, random_state)
    \/ GetEnergy(i)
    \/ GetMagnetization(i)
    \/ \E temperature \in Temperatures : Sweep(i, temperature)
    \/ \E b \in BinArgs, temperature \in WriterTemperatures :
          WriteConfigs(i, b[1], b[2], temperature)

Constructs(i) ==
    \E lattice_size \in Sizes, coupling \in Couplings, model \in Models :
        Construct(i, lattice_size, coupling, model)

\* a process that creates one object
Next == Constructs("A") \/ Calls("A")

Spec == Init /\ [][Next]_vars

\* a process that creates two objects, of sizes 1 and 2
ConstructsShared(i) ==
    \E lattice_size \in {1, 2}, coupling \in Couplings, model \in Models :
        Construct(i, lattice_size, coupling, model)

NextShared == \E i \in Inst : ConstructsShared(i) \/ Calls(i)

SpecShared == Init /\ [][NextShared]_vars

\* An initialized ising or gauge object of size 1..MaxLat holding any
\* configuration with at most MaxDown spins equal to -1, with one call left.
InitCfg ==
    \E lattice_size \in 1 .. MaxLat, coupling \in Couplings,
       model \in {"ising", "gauge"}, a \in Seeds :
      \E down \in [1 .. MaxDown -> -1 .. NSpinsOf(lattice_size, model) - 1] :
        LET spins == [index \in 0 .. NSpinsOf(lattice_size, model) - 1 |->
                        IF \E j \in 1 .. MaxDown : down[j] = index THEN -1 ELSE 1]
        IN /\ obj = [i \in Inst |->
                       IF i = "A"
                       THEN [init(lattice_size, coupling, model) EXCEPT
                               !.spins = spins, !.attrs = @ \cup {"spins"}]
                       ELSE NoObj]
           /\ live = {"A"}
           /\ rng_state = RngSeed(a)
           /\ files = NoFiles
           /\ last = Last("", "", "", 0, "", 0, <<>>)
           /\ shadow = [i \in Inst |->
                          IF i = "A" THEN [spins |-> spins, rng |-> RngSeed(a)]
                          ELSE [spins |-> <<>>, rng |-> 0]]
           /\ nops = MaxOps - 1

\* the calls that read the configuration's energy
NextCfg ==
    \/ GetEnergy("A")
    \/ \E temperature \in Temperatures : Sweep("A", temperature)

SpecCfg == InitCfg /\ [][NextCfg]_vars

\* =============================================================== claims
Initialized(o) == "spins" \in o.attrs

AllUp(o) == \A k \in 0 .. o.n_spins - 1 : o.spins[k] = 1

\* the trials of the last call, when it was a sweep of object i
TrialsOf(i) ==
    IF last.op = "sweep" /\ last.inst = i
    THEN {last.trials[n] : n \in 1 .. Len(last.trials)} ELSE {}

\* C1: for every lattice size L > 0 the neighbour table built by the
\* constructor has all four entries of every site inside [0, L*L), left
\* undoes right and up undoes down, and the first row and column wrap to
\* the last: site 0 has left neighbour L-1 and up neighbour L*L-L, site L-1
\* has right neighbour 0 and site L*L-L has down neighbour 0.
C1_NeighbourTable ==
    \A i \in live :
      LET o == obj[i]
          L == o.lattice_size
      IN L > 0 =>
           /\ DOMAIN o.neighbours = 0 .. L * L - 1
           /\ \A index \in 0 .. L * L - 1 :
                /\ \A neigh \in 0 .. 3 : o.neighbours[index][neigh] \in 0 .. L * L - 1
                /\ o.neighbours[o.neighbours[index][0]][2] = index
                /\ o.neighbours[o.neighbours[index][1]][3] = index
           /\ o.neighbours[0][2] = L - 1
           /\ o.neighbours[L - 1][0] = 0
           /\ o.neighbours[0][3] = L * L - L
           /\ o.neighbours[L * L - L][1] = 0

C1_Witness ==
    /\ "A" \in live
    /\ obj["A"].lattice_size = 3
    /\ obj["A"].neighbours[0] = [neigh \in 0 .. 3 |-> <<1, 3, 2, 6>>[neigh + 1]]
    /\ obj["A"].neighbours[8] = [neigh \in 0 .. 3 |-> <<6, 2, 7, 5>>[neigh + 1]]

\* the Ising energy written over the rows and columns of the torus: every
\* site bonded to the site in the next column and to the site in the next row
CoordEnergy(L, coupling, spins) ==
    -coupling
      * SumTo([index \in 0 .. L * L - 1 |->
                 spins[index] * spins[(index \div L) * L + (((index % L) + 1) % L)]
                 + spins[index] * spins[(((index \div L) + 1) % L) * L + (index % L)]],
              L * L)

\* the sum of spin[i] * spin[j] over every site i and each of its four
\* neighbours j: every undirected bond taken twice
FourNeighbourSum(o) ==
    SumTo([index \in 0 .. o.n_sites - 1 |->
             SumTo([neigh \in 0 .. 3 |->
                      o.spins[index] * o.spins[o.neighbours[index][neigh]]], 4)],
          o.n_sites)

\* C4: for an Ising model of size L > 0 and any configuration, the energy
\* get_energy produces is -coupling times the sum over the sites of the
\* right bond and the down bond, which counts every bond of the torus once
\* (it is half the sum over all four neighbours of every site), and it is
\* -2*coupling*L*L when every spin is +1.
C4_IsingEnergy ==
    \A i \in live :
      LET o == obj[i]
          E == get_energy(o).self.energy
      IN (o.model = "ising" /\ Initialized(o) /\ o.lattice_size > 0) =>
           /\ E = CoordEnergy(o.lattice_size, o.coupling, o.spins)
           /\ 2 * E = -o.coupling * FourNeighbourSum(o)
           /\ AllUp(o) => E = -2 * o.coupling * o.lattice_size * o.lattice_size
           /\ (last.op = "get_energy" /\ last.inst = i) =>
                (last.outcome = "ok" /\ o.energy = E)

C4_Witness ==
    /\ last.op = "get_energy" /\ last.inst = "A" /\ last.outcome = "ok"
    /\ obj["A"].model = "ising"
    /\ obj["A"].lattice_size = 2
    /\ obj["A"].coupling = 1
    /\ AllUp(obj["A"])
    /\ obj["A"].energy = -8

\* the links whose spins get_energy multiplies for the plaquette of a site
PlaquetteLinks(o, index) ==
    {2 * index, 2 * index + 1, 2 * o.neighbours[index][1],
     2 * o.neighbours[index][0] + 1}

\* C10: for the gauge model on a lattice of size L >= 2, any configuration
\* and any link k, the two plaquettes sweep uses for k are distinct, they
\* are exactly the plaquettes whose energy term contains k, and the deltaE
\* sweep computes is the energy of the configuration with k negated minus
\* the energy of the configuration; so is the deltaE of every trial run.
C10_GaugeDeltaE ==
    \A i \in live :
      LET o == obj[i]
          E == EnergyOf(o, o.spins)
      IN (o.model = "gauge" /\ Initialized(o) /\ o.lattice_size >= 2) =>
           /\ \A k \in 0 .. o.n_spins - 1 :
                /\ k \div 2 # second_plaquette(o, k)
                /\ {index \in 0 .. o.n_sites - 1 : k \in PlaquetteLinks(o, index)}
                     = {k \div 2, second_plaquette(o, k)}
                /\ GaugeDeltaE(o, o.spins, k)
                     = EnergyOf(o, FlipAt(o.spins, k)) - E
           /\ \A t \in TrialsOf(i) :
                t.raised = "" =>
                  t.deltaE = EnergyOf(o, FlipAt(t.before, t.spin_location))
                             - EnergyOf(o, t.before)

C10_Witness ==
    /\ obj["A"].model = "gauge"
    /\ obj["A"].lattice_size = 3
    /\ last.outcome = "ok"
    /\ \E t \in TrialsOf("A") : t.deltaE > 0 /\ t.spin_location % 2 = 0
    /\ \E t \in TrialsOf("A") : t.deltaE < 0

\* C9: after any sequence of high_T_spins and sweep calls the spin array
\* has n_spins elements (L*L for ising, 2*L*L for gauge), each +1 or -1;
\* the magnetization get_magnetization produces lies in [-n_spins, n_spins]
\* and is n_spins exactly when every spin is +1.
C9_SpinsAndMagnetization ==
    \A i \in live :
      LET o == obj[i]
          M == get_magnetization(o).self.magnetization
      IN Initialized(o) =>
           /\ DOMAIN o.spins = 0 .. o.n_spins - 1
           /\ o.model = "ising" => o.n_spins = o.lattice_size * o.lattice_size
           /\ o.model = "gauge" => o.n_spins = 2 * o.lattice_size * o.lattice_size
           /\ \A k \in 0 .. o.n_spins - 1 : o.spins[k] \in {1, -1}
           /\ M \in -o.n_spins .. o.n_spins
           /\ (M = o.n_spins) <=> AllUp(o)
           /\ (last.op = "get_magnetization" /\ last.inst = i) =>
                (last.outcome = "ok" /\ o.magnetization = M)

C9_Witness ==
    /\ obj["A"].model = "gauge"
    /\ obj["A"].n_spins = 8
    /\ last.outcome = "ok"
    /\ \E t \in TrialsOf("A") : t.accepted
    /\ \E k \in 0 .. 7 : obj["A"].spins[k] = -1

\* C8: a call of get_energy, get_magnetization or write_configs leaves every
\* element of the spin array as it was (the spins change only in sweep and
\* high_T_spins), and no call after construction changes the neighbour
\* table, n_spins, the coupling or the critical temperature.
C8_Frame ==
    [][\A i \in live :
         /\ last'.op \in {"get_energy", "get_magnetization", "write_configs"} =>
              /\ obj'[i].spins = obj[i].spins
              /\ Initialized(obj'[i]) <=> Initialized(obj[i])
         /\ obj'[i].neighbours = obj[i].neighbours
         /\ obj'[i].n_spins = obj[i].n_spins
         /\ ("n_spins" \in obj'[i].attrs) <=> ("n_spins" \in obj[i].attrs)
         /\ obj'[i].coupling = obj[i].coupling
         /\ obj'[i].crit_temperature = obj[i].crit_temperature]_vars

\* the writer has written a line with every spin's sign reversed
C8_Witness ==
    /\ last.op = "write_configs" /\ last.inst = "A" /\ last.outcome = "ok"
    /\ obj["A"].n_spins > 0
    /\ \E f \in {"Xtrain.txt", "Xtest.txt"} :
         /\ Len(files[f].lines) > 0
         /\ \A k \in 0 .. obj["A"].n_spins - 1 :
              files[f].lines[Len(files[f].lines)][k + 1]
                = (IF obj["A"].spins[k] = 1 THEN 0 ELSE 1)

\* C2: every trial of a sweep of an initialized ising model computes
\* deltaE = 2*coupling*spin[i]*(sum of the four neighbours of i) for the
\* spin i it drew and completes, with that spin negated or nothing changed.
C2_IsingTrial ==
    \A i \in live :
      LET o == obj[i]
      IN (last.op = "sweep" /\ last.inst = i /\ o.model = "ising" /\ Initialized(o)) =>
           /\ last.outcome = "ok"
           /\ Len(last.trials) = o.n_spins
           /\ \A t \in TrialsOf(i) :
                /\ t.raised = ""
                /\ t.deltaE = IsingDeltaE(o, t.before, t.spin_location)
                /\ t.after \in {t.before, FlipAt(t.before, t.spin_location)}

\* deltaE of the flip a trial proposes, as sweep defines it for the model
ProposedDeltaE(o, t) ==
    IF o.model = "ising"
    THEN IsingDeltaE(o, t.before, t.spin_location)
    ELSE GaugeDeltaE(o, t.before, t.spin_location)

\* C3: in every trial of a sweep, a flip with deltaE <= 0 is accepted after
\* the one draw that chose the spin; a flip with deltaE > 0 consumes one
\* more draw; an accepted flip negates the chosen spin and nothing else,
\* a rejected one leaves the configuration as it was.
C3_MetropolisRule ==
    \A i \in live :
      LET o == obj[i]
      IN Initialized(o) =>
           \A t \in TrialsOf(i) :
             /\ ProposedDeltaE(o, t) <= 0 => (t.accepted /\ t.draws = 1)
             /\ ProposedDeltaE(o, t) > 0 => t.draws = 2
             /\ t.after = IF t.accepted THEN FlipAt(t.before, t.spin_location)
                          ELSE t.before

\* C5: the spins an object holds after high_T_spins(seed) and any number of
\* sweeps are those it would hold had its generator been its own, whatever
\* calls on the other object or of the writer came in between.
C5_StreamPerObject ==
    \A i \in live : Initialized(obj[i]) => obj[i].spins = shadow[i].spins

\* C6: get_energy, get_magnetization and sweep called on an object whose
\* spins were never initialized fail with StateError and leave the object
\* exactly as it was.
C6_StateError ==
    [][\A i \in live :
         (/\ nops' = nops + 1
          /\ last'.inst = i
          /\ last'.op \in {"get_energy", "get_magnetization", "sweep"}
          /\ ~Initialized(obj[i]))
         => (last'.outcome = "StateError" /\ obj'[i] = obj[i])]_vars

\* C7: the constructor called with size <= 0 or with a variant that is
\* neither ising nor gauge fails with ConfigurationError and produces no
\* object; sweep called with temperature <= 0 fails with ConfigurationError,
\* runs no trial and leaves the spins as they were.
C7_ConfigurationError ==
    [][/\ (/\ last'.op = "construct"
           /\ live' # live
           /\ (last'.size <= 0 \/ last'.model \notin {"ising", "gauge"}))
          => (last'.outcome = "ConfigurationError" /\ obj' = obj)
       /\ (/\ last'.op = "sweep"
           /\ nops' = nops + 1
           /\ last'.temperature <= 0)
          => (/\ last'.outcome = "ConfigurationError"
              /\ last'.trials = <<>>
              /\ obj' = obj)]_vars

====
